---- MODULE Spec2Model ----
(***************************************************************************)
(* Request handlers of usaspending-api:                                    *)
(*   disaster/v2/views/federal_account/count.py  FederalAccountCountViewSet *)
(*   recipient/v2/views/recipients.py            RecipientOverView,         *)
(*                                               ChildRecipients + helpers  *)
(*   download count endpoint (known through its integration test)          *)
(*                                                                         *)
(* Text values that the code slices (recipient ids, hashes, levels) are    *)
(* sequences of one-character strings.  Opaque text (DUNS, names, UEI) is  *)
(* a TLA+ string, with None for Python's None.  A Decimal amount is the    *)
(* integer number of its hundredths.                                       *)
(***************************************************************************)
EXTENDS Integers, Sequences, FiniteSets, TLC

VARIABLES db, index, pc, req, loc, resp, esLog

vars == <<db, index, pc, req, loc, resp, esLog>>

----------------------------------------------------------------------------
(* Bounds of the model *)

\* most documents in the search index
MaxDocs == 3
\* most RecipientLookup rows, most RecipientProfile rows
MaxLookups == 2
MaxProfiles == 2
\* most FinancialAccountsByProgramActivityObjectClass rows
MaxFaba == 2
\* most transactions of the download database
MaxTransactions == 4
\* settings.MAX_DOWNLOAD_LIMIT, scaled so that the model's counts pass it
MAX_DOWNLOAD_LIMIT == 2
\* longest recipient_id text enumerated for validate_recipient_id
MaxIdLen == 5
\* number of hexadecimal digits of a UUID (32 in Python's uuid module), scaled
UuidHexLen == 2

----------------------------------------------------------------------------
(* Text helpers *)

None == "None"
NoneStr == <<>>

HexDigits == {"a", "b", "A"}

\* str.lower() on the characters of the alphabet
Lower(c) == IF c = "A" THEN "a" ELSE c

\* "c" * UuidHexLen
Rep(c) == [i \in 1..UuidHexLen |-> c]

\* Faulty variant: s.find("-"): the first hyphen instead of the last
RFind_first(s) ==
    IF \E i \in 1..Len(s) : s[i] = "-"
    THEN CHOOSE i \in 1..Len(s) : s[i] = "-" /\ \A j \in 1..(i-1) : s[j] # "-"
    ELSE 0

\* s.rfind("-"): 1-based index of the last hyphen, 0 when there is none
\* (Python's -1 for an absent hyphen, shifted by the 1-based indexing)
RFind(s) ==
    IF \E i \in 1..Len(s) : s[i] = "-"
    THEN CHOOSE i \in 1..Len(s) : s[i] = "-" /\ \A j \in (i+1)..Len(s) : s[j] # "-"
    ELSE 0

\* s.replace("-", "")
RECURSIVE StripHyphens(_)
StripHyphens(s) ==
    IF s = <<>> THEN <<>>
    ELSE IF Head(s) = "-" THEN StripHyphens(Tail(s))
    ELSE <<Head(s)>> \o StripHyphens(Tail(s))

\* uuid.UUID(text) succeeds: hyphens removed, exactly the UUID's number of
\* digits, every one hexadecimal
IsUuidText(s) ==
    LET hex == StripHyphens(s)
    IN  Len(hex) = UuidHexLen /\ \A i \in 1..Len(hex) : hex[i] \in HexDigits

\* the value uuid.UUID(text) denotes, as the database stores it (UUIDField):
\* hyphen-free lower-case digits
CanonUuid(s) == LET hex == StripHyphens(s) IN [i \in 1..Len(hex) |-> Lower(hex[i])]

\* "{}-X".format(h)
Str(h) == IF h = NoneStr THEN <<"N", "o", "n", "e">> ELSE h
FormatLevel(h, lvl) == Str(h) \o <<"-", lvl>>

\* s[:-2] and s[-2:]
DropLast2(s) == IF Len(s) <= 2 THEN <<>> ELSE SubSeq(s, 1, Len(s) - 2)
Last2(s) == IF Len(s) <= 2 THEN s ELSE SubSeq(s, Len(s) - 1, Len(s))

RECIPIENT_LEVELS == {<<"P">>, <<"C">>, <<"R">>}

----------------------------------------------------------------------------
(* ORM helpers: a table is a sequence of rows in the order the database     *)
(* returns them                                                            *)

\* one RecipientProfile row
ProfileRow(h, lvl, duns, name, affiliations, uei) ==
    [recipient_hash |-> h, recipient_level |-> lvl, recipient_unique_id |-> duns,
     recipient_name |-> name, recipient_affiliations |-> affiliations, uei |-> uei]

\* one RecipientLookup row
LookupRow(h, duns, name, state) ==
    [recipient_hash |-> h, duns |-> duns, legal_business_name |-> name, state |-> state]

EmptyDb ==
    [lookup |-> <<>>, profile |-> <<>>, accounts |-> {}, faba |-> <<>>,
     window |-> [quarterly |-> [submission_fiscal_year |-> 0, submission_fiscal_quarter |-> 0],
                 monthly |-> [submission_fiscal_year |-> 0, submission_fiscal_month |-> 0]],
     reporting_period_min |-> 0, transactions |-> <<>>]

NoReq ==
    [op |-> "none", recipient_id |-> <<>>, year |-> None, duns |-> None,
     children |-> FALSE, def_codes |-> {}, agency |-> None]
NoLoc == [step |-> "none"]
NoResp == [status |-> "none"]

----------------------------------------------------------------------------
(* validate_recipient_id *)

ValidateRaise == [raised |-> TRUE, hash |-> NoneStr, level |-> NoneStr]

ProfileHasHashLevel(p, h, lvl) ==
    \E i \in 1..Len(p) : p[i].recipient_hash = h /\ p[i].recipient_level = lvl

validate_recipient_id(recipient_id) ==
    IF ~(\E i \in 1..Len(recipient_id) : recipient_id[i] = "-") THEN ValidateRaise
    ELSE
      LET recipient_level == SubSeq(recipient_id, RFind(recipient_id) + 1, Len(recipient_id))
      IN  IF recipient_level \notin RECIPIENT_LEVELS THEN ValidateRaise
          ELSE
            LET recipient_hash == SubSeq(recipient_id, 1, RFind(recipient_id) - 1)
            IN  IF ~IsUuidText(recipient_hash) THEN ValidateRaise
                ELSE IF ~ProfileHasHashLevel(db.profile, CanonUuid(recipient_hash), recipient_level)
                THEN ValidateRaise
                ELSE [raised |-> FALSE, hash |-> recipient_hash, level |-> recipient_level]

----------------------------------------------------------------------------
(* The search index.  A document is one transaction; money fields are held  *)
(* in thousandths, so that the scaled (x100) sums Elasticsearch returns     *)
(* are tenths: a "value" v below stands for the float v/10.                 *)

Doc(h, parent, key, obligation, type, loan, fy, recent) ==
    [recipient_hash |-> h, parent_recipient_hash |-> parent, recipient_agg_key |-> key,
     generated_pragmatic_obligation |-> obligation, type |-> type,
     face_value_loan_guarantee |-> loan, fiscal_year |-> fy, recent |-> recent]

\* the parsed JSON of a recipient_agg_key
AggKey(name, duns, hash_with_level) ==
    [present |-> TRUE, name |-> name, unique_id |-> duns, hash_with_level |-> hash_with_level]
NoKey == [present |-> FALSE, name |-> None, unique_id |-> None, hash_with_level |-> <<>>]

loan_type_mapping == {"07", "08"}

RECURSIVE SumSeq(_)
SumSeq(s) == IF s = <<>> THEN 0 ELSE Head(s) + SumSeq(Tail(s))

\* reshape_filters + QueryWithFilters.generate_transactions_elasticsearch_query:
\* the documents of the recipient (by the id's level) in the time period
InTimePeriod(doc, year) ==
    CASE year = "all" -> TRUE
      [] year = "latest" -> doc.recent
      [] OTHER -> doc.fiscal_year = year

MatchesFilter(doc, recipient_id, year) ==
    /\ InTimePeriod(doc, year)
    /\ CASE Last2(recipient_id) = <<"-", "P">> ->
              doc.parent_recipient_hash = DropLast2(recipient_id)
         [] Last2(recipient_id) = <<"-", "C">> ->
              doc.recipient_hash = DropLast2(recipient_id) /\ doc.parent_recipient_hash # NoneStr
         [] OTHER ->
              doc.recipient_hash = DropLast2(recipient_id) /\ doc.parent_recipient_hash = NoneStr

FilterQuery(idx, recipient_id, year) ==
    SelectSeq(idx, LAMBDA d : MatchesFilter(d, recipient_id, year))

FieldPresent(doc, field) ==
    CASE field = "recipient_agg_key" -> doc.recipient_agg_key.present
      [] field = "parent_recipient_hash" -> doc.parent_recipient_hash # NoneStr
      [] OTHER -> doc.recipient_hash # NoneStr

\* documents of `docs` with the same term of `field` as `d`
SameTerm(d, e, field) ==
    CASE field = "recipient_agg_key" -> d.recipient_agg_key = e.recipient_agg_key
      [] field = "parent_recipient_hash" -> d.parent_recipient_hash = e.parent_recipient_hash
      [] OTHER -> d.recipient_hash = e.recipient_hash

\* positions of the first document of each term
TermLeaders(docs, field) ==
    {i \in 1..Len(docs) :
        /\ FieldPresent(docs[i], field)
        /\ \A j \in 1..(i-1) : ~(FieldPresent(docs[j], field) /\ SameTerm(docs[i], docs[j], field))}

\* get_number_of_unique_terms_for_transactions(filter_query, field + ".hash")
get_number_of_unique_terms_for_transactions(idx, recipient_id, year, field) ==
    Cardinality(TermLeaders(FilterQuery(idx, recipient_id, year), field))

\* the bucket Elasticsearch builds for the term of docs[i]
BucketOf(docs, i, field) ==
    LET members == SelectSeq(docs, LAMBDA d : FieldPresent(d, field) /\ SameTerm(docs[i], d, field))
        loans == SelectSeq(members, LAMBDA d : d.type \in loan_type_mapping)
    IN  [key |-> IF field = "recipient_agg_key" THEN docs[i].recipient_agg_key
                 ELSE IF field = "parent_recipient_hash" THEN docs[i].parent_recipient_hash
                 ELSE docs[i].recipient_hash,
         doc_count |-> Len(members),
         sum_obligation |->
             [value |-> SumSeq([k \in 1..Len(members) |-> members[k].generated_pragmatic_obligation])],
         filter_loans |->
             [doc_count |-> Len(loans),
              sum_face_value_loan |->
                  [value |-> SumSeq([k \in 1..Len(loans) |-> loans[k].face_value_loan_guarantee])]]]

\* the reply with some optional parts left out
Without(f, k) == [x \in (DOMAIN f) \ {k} |-> f[x]]
Shape(bucket, shape) ==
    CASE shape = "no_sum" -> Without(bucket, "sum_obligation")
      [] shape = "no_loans" -> Without(bucket, "filter_loans")
      [] shape = "no_loan_sum" ->
            [bucket EXCEPT !.filter_loans = Without(bucket.filter_loans, "sum_face_value_loan")]
      [] shape = "no_count" -> Without(bucket, "doc_count")
      [] OTHER -> bucket

\* search.handle_execute().aggs["group_by_recipient"]["buckets"]: one bucket per
\* term, in any order
AggReplies(idx, recipient_id, year, field, shapes) ==
    LET docs == FilterQuery(idx, recipient_id, year)
        leaders == TermLeaders(docs, field)
        n == Cardinality(leaders)
        orders == {o \in [1..n -> leaders] : \A a, b \in 1..n : a # b => o[a] # o[b]}
    IN  {[k \in 1..n |-> Shape(BucketOf(docs, o[k], field), sh)] : o \in orders, sh \in shapes}

----------------------------------------------------------------------------
(* obtain_recipient_totals *)

Get(f, k, default) == IF k \in DOMAIN f THEN f[k] ELSE default

\* Faulty variant: floor instead of int()
IntOfTenths_floor(v) == v \div 10

\* int(x) of the float v/10: truncation toward zero
IntOfTenths(v) == IF v >= 0 THEN v \div 10 ELSE -((-v) \div 10)

\* RecipientProfile.objects.filter(recipient_hash=h).values("uei").first(),
\* then ["uei"] unless None
ProfileUei(h) ==
    LET rows == SelectSeq(db.profile, LAMBDA r : r.recipient_hash = CanonUuid(h))
    IN  IF h = NoneStr \/ rows = <<>> THEN None ELSE rows[1].uei

\* Faulty variant: the id's level is looked at before `children`
GroupByField_levelFirst(recipient_id, children) ==
    IF Last2(recipient_id) = <<"-", "P">> THEN "parent_recipient_hash"
    ELSE IF children THEN "recipient_agg_key"
    ELSE "recipient_hash"

GroupByField(recipient_id, children) ==
    IF children THEN "recipient_agg_key"
    ELSE IF Last2(recipient_id) = <<"-", "P">> THEN "parent_recipient_hash"
    ELSE "recipient_hash"

BucketTotals(bucket) ==
    LET loan_info == Get(bucket, "filter_loans", <<>>)
    IN  [total_obligation_amount |->
             IntOfTenths(Get(bucket, "sum_obligation", [value |-> 0]).value),
         total_obligation_count |-> Get(bucket, "doc_count", 0),
         total_face_value_loan_amount |->
             IntOfTenths(Get(loan_info, "sum_face_value_loan", [value |-> 0]).value),
         total_face_value_loan_count |-> Get(loan_info, "doc_count", 0)]

BucketResult(bucket, children) ==
    IF children
    THEN LET recipient_info == bucket.key
             hash_with_level == recipient_info.hash_with_level
             hash == IF hash_with_level # <<>> THEN DropLast2(hash_with_level) ELSE NoneStr
         IN  [recipient_hash |-> hash,
              recipient_unique_id |-> recipient_info.unique_id,
              uei |-> ProfileUei(hash),
              recipient_name |-> recipient_info.name] @@ BucketTotals(bucket)
    ELSE BucketTotals(bucket)

\* `reply` is what the aggregation search would answer; it is read only when the
\* search is executed.  The result carries the index queries made, in order.
obtain_recipient_totals(recipient_id, children, year, reply) ==
    LET group_by_field == GroupByField(recipient_id, children)
        bucket_count ==
            get_number_of_unique_terms_for_transactions(index, recipient_id, year, group_by_field)
        counted == [query |-> "cardinality", field |-> group_by_field, subfield |-> "hash"]
    IN  IF bucket_count = 0
        THEN [result |-> <<>>, bucket_count |-> 0, queries |-> <<counted>>]
        ELSE [result |-> [i \in 1..Len(reply) |-> BucketResult(reply[i], children)],
              bucket_count |-> bucket_count,
              queries |-> <<counted, [query |-> "terms", field |-> group_by_field,
                                      subfield |-> "", size |-> bucket_count]>>]

----------------------------------------------------------------------------
(* Specification of validate_recipient_id over enumerated id texts *)

IdAlphabet == {"a", "A", "g", "-", "P"}

RECURSIVE TextsUpTo(_, _)
TextsUpTo(alphabet, n) ==
    IF n = 0 THEN {<<>>}
    ELSE LET shorter == TextsUpTo(alphabet, n - 1)
         IN  shorter \cup {Append(t, c) : t \in shorter, c \in alphabet}

IdTexts == TextsUpTo(IdAlphabet, MaxIdLen)

ValidateProfiles ==
    { <<>>,
      <<ProfileRow(Rep("a"), <<"P">>, "d1", "n1", <<>>, "u1")>>,
      <<ProfileRow(Rep("a"), <<"C">>, "d1", "n1", <<>>, "u1")>>,
      <<ProfileRow(Rep("b"), <<"P">>, "d2", "n2", <<>>, "u2"),
        ProfileRow(Rep("a"), <<"P">>, "d1", "n1", <<>>, "u1")>> }

InitValidate ==
    /\ db \in {[EmptyDb EXCEPT !.profile = p] : p \in ValidateProfiles}
    /\ index = <<>>
    /\ pc = "idle"
    /\ req = NoReq
    /\ loc = NoLoc
    /\ resp = NoResp
    /\ esLog = <<>>

Call_validate_recipient_id ==
    /\ pc = "idle"
    /\ \E id \in IdTexts :
         LET r == validate_recipient_id(id)
         IN  /\ req' = [NoReq EXCEPT !.op = "validate_recipient_id", !.recipient_id = id]
             /\ resp' = [status |-> IF r.raised THEN "invalid" ELSE "ok", body |-> r]
    /\ pc' = "done"
    /\ UNCHANGED <<db, index, loc, esLog>>

\* the response leaves; nothing of the request is kept
Return ==
    /\ pc = "done"
    /\ pc' = "idle"
    /\ req' = NoReq
    /\ loc' = NoLoc
    /\ resp' = NoResp
    /\ esLog' = <<>>
    /\ UNCHANGED <<db, index>>

NextValidate == Call_validate_recipient_id \/ Return

SpecValidate == InitValidate /\ [][NextValidate]_vars

C2_NoHyphen(id) == \A i \in 1..Len(id) : id[i] # "-"
C2_LastHyphenAt(id, k) == id[k] = "-" /\ \A j \in (k+1)..Len(id) : id[j] # "-"
C2_Bad(id) ==
    \/ C2_NoHyphen(id)
    \/ \E k \in 1..Len(id) :
         /\ C2_LastHyphenAt(id, k)
         /\ LET after == SubSeq(id, k + 1, Len(id))
                before == SubSeq(id, 1, k - 1)
            IN  \/ after \notin {<<"P">>, <<"C">>, <<"R">>}
                \/ ~IsUuidText(before)
                \/ ~\E i \in 1..Len(db.profile) :
                       /\ db.profile[i].recipient_hash = CanonUuid(before)
                       /\ db.profile[i].recipient_level = after

\* C2: validate_recipient_id raises the invalid-parameter error exactly when the
\* id has no hyphen, or the text after its last hyphen is not a recipient
\* level, or the text before it is not a valid UUID, or no RecipientProfile
\* row has that hash and level; otherwise it returns (hash, level).
C2_ValidateRaisesExactlyWhenInvalid ==
    (pc = "done" /\ req.op = "validate_recipient_id") =>
        LET id == req.recipient_id
        IN  IF C2_Bad(id)
            THEN resp.status = "invalid" /\ resp.body.hash = NoneStr /\ resp.body.level = NoneStr
            ELSE /\ resp.status = "ok"
                 /\ \E k \in 1..Len(id) :
                      /\ C2_LastHyphenAt(id, k)
                      /\ resp.body.hash = SubSeq(id, 1, k - 1)
                      /\ resp.body.level = SubSeq(id, k + 1, Len(id))

\* a well-formed id of a stored profile was accepted
C2_Witness_Accepted ==
    pc = "done" /\ req.op = "validate_recipient_id" /\ resp.status = "ok"
\* an id failing only the database lookup (valid level, valid UUID) was rejected
C2_Witness_RejectedNotFound ==
    /\ pc = "done" /\ req.op = "validate_recipient_id" /\ resp.status = "invalid"
    /\ \E k \in 1..Len(req.recipient_id) :
         /\ C2_LastHyphenAt(req.recipient_id, k)
         /\ SubSeq(req.recipient_id, k + 1, Len(req.recipient_id)) = <<"P">>
         /\ IsUuidText(SubSeq(req.recipient_id, 1, k - 1))
         /\ Len(db.profile) > 0

----------------------------------------------------------------------------
(* Specification of obtain_recipient_totals over enumerated indexes *)

HA == Rep("a")
HB == Rep("b")

\* the subsequences of `cands` with at most `max` elements
RECURSIVE Pick(_, _, _)
Pick(cands, chosen, i) ==
    IF i > Len(cands) THEN <<>>
    ELSE (IF i \in chosen THEN <<cands[i]>> ELSE <<>>) \o Pick(cands, chosen, i + 1)
SubsequencesOf(cands, max) ==
    {Pick(cands, chosen, 1) : chosen \in {c \in SUBSET (1..Len(cands)) : Cardinality(c) <= max}}

Years == {"latest", "all", "2019"}

TotalsDocs ==
    << Doc(HB, HA, AggKey("n2", "d2", FormatLevel(HB, "C")), 25, "A", 0, "2020", TRUE),
       Doc(HB, HA, AggKey("n2", "d2", FormatLevel(HB, "C")), -19, "07", 38, "2019", TRUE),
       Doc(HA, HA, AggKey("n1", None, <<>>), 7, "08", -12, "2019", FALSE),
       Doc(HB, NoneStr, NoKey, 100, "07", 5, "2020", TRUE) >>

TotalsProfiles ==
    { <<>>, <<ProfileRow(HB, <<"C">>, "d2", "n2", <<>>, "u2")>> }

TotalsIds == {FormatLevel(HA, "P"), FormatLevel(HB, "C"), FormatLevel(HB, "R")}

ReplyShapes == {"full", "no_sum", "no_loans", "no_loan_sum", "no_count"}

InitTotals ==
    /\ db \in {[EmptyDb EXCEPT !.profile = p] : p \in TotalsProfiles}
    /\ index \in SubsequencesOf(TotalsDocs, MaxDocs)
    /\ pc = "idle"
    /\ req = NoReq
    /\ loc = NoLoc
    /\ resp = NoResp
    /\ esLog = <<>>

Call_obtain_recipient_totals ==
    /\ pc = "idle"
    /\ \E recipient_id \in TotalsIds, children \in BOOLEAN, year \in Years :
         \E reply \in AggReplies(index, recipient_id, year,
                                 GroupByField(recipient_id, children), ReplyShapes) :
           LET t == obtain_recipient_totals(recipient_id, children, year, reply)
           IN  /\ req' = [NoReq EXCEPT !.op = "obtain_recipient_totals",
                                       !.recipient_id = recipient_id,
                                       !.children = children, !.year = year]
               /\ loc' = [step |-> "totals", bucket_count |-> t.bucket_count,
                          buckets |-> IF t.bucket_count = 0 THEN <<>> ELSE reply]
               /\ resp' = [status |-> "ok", body |-> t.result]
               /\ esLog' = t.queries
    /\ pc' = "done"
    /\ UNCHANGED <<db, index>>

NextTotals == Call_obtain_recipient_totals \/ Return

SpecTotals == InitTotals /\ [][NextTotals]_vars

TotalsDone == pc = "done" /\ req.op = "obtain_recipient_totals"

C8_Field ==
    IF req.children THEN "recipient_agg_key"
    ELSE IF Len(req.recipient_id) >= 2
            /\ req.recipient_id[Len(req.recipient_id) - 1] = "-"
            /\ req.recipient_id[Len(req.recipient_id)] = "P"
         THEN "parent_recipient_hash"
    ELSE "recipient_hash"

\* C8: obtain_recipient_totals groups by one field, chosen by priority:
\* recipient_agg_key when children, else parent_recipient_hash when the id ends
\* with "-P", else recipient_hash; when that field has no unique term under the
\* filter the result is the empty list and no aggregation search is executed.
C8_GroupFieldPriorityAndEmptyShortcut ==
    TotalsDone =>
        /\ \A i \in 1..Len(esLog) : esLog[i].field = C8_Field
        /\ Len(esLog) >= 1 /\ esLog[1].query = "cardinality"
        /\ (loc.bucket_count = 0) =>
              (resp.body = <<>> /\ \A i \in 1..Len(esLog) : esLog[i].query # "terms")
        /\ (loc.bucket_count > 0) =>
              (Len(esLog) = 2 /\ esLog[2].query = "terms")

\* children requested for a "-P" id whose filter matches documents
C8_Witness_ChildrenOfParent ==
    /\ TotalsDone /\ req.children /\ Last2(req.recipient_id) = <<"-", "P">>
    /\ loc.bucket_count > 0
\* no unique term: empty list
C8_Witness_NoTerms ==
    TotalsDone /\ loc.bucket_count = 0 /\ Len(index) > 0

C9_IsIntOf(a, v) ==
    IF v >= 0 THEN 10 * a <= v /\ v < 10 * (a + 1)
    ELSE 10 * (a - 1) < v /\ v <= 10 * a
RecipientKeys == {"recipient_hash", "recipient_unique_id", "uei", "recipient_name"}
C9_ResultOfBucket(r, b) ==
    /\ r.total_obligation_count = (IF "doc_count" \in DOMAIN b THEN b.doc_count ELSE 0)
    /\ IF "sum_obligation" \in DOMAIN b
       THEN C9_IsIntOf(r.total_obligation_amount, b.sum_obligation.value)
       ELSE r.total_obligation_amount = 0
    /\ IF "filter_loans" \in DOMAIN b
       THEN /\ r.total_face_value_loan_count = b.filter_loans.doc_count
            /\ IF "sum_face_value_loan" \in DOMAIN b.filter_loans
               THEN C9_IsIntOf(r.total_face_value_loan_amount,
                               b.filter_loans.sum_face_value_loan.value)
               ELSE r.total_face_value_loan_amount = 0
       ELSE r.total_face_value_loan_count = 0 /\ r.total_face_value_loan_amount = 0
    /\ IF req.children THEN RecipientKeys \subseteq DOMAIN r
       ELSE RecipientKeys \cap DOMAIN r = {}

\* C9: one result per bucket, in bucket order; counts are the bucket's and its
\* loan filter's doc_count, amounts are the scaled sums cut to integers and
\* divided by 100 (0 when the sum or the loan filter is absent); the recipient
\* keys are present exactly when children is true.
C9_OneResultPerBucket ==
    (TotalsDone /\ loc.bucket_count > 0) =>
        /\ Len(resp.body) = Len(loc.buckets)
        /\ \A i \in 1..Len(resp.body) : C9_ResultOfBucket(resp.body[i], loc.buckets[i])

\* two buckets, one with a negative fractional sum
C9_Witness_TwoBucketsNegativeSum ==
    /\ TotalsDone /\ Len(resp.body) = 2
    /\ \E i \in 1..2 : /\ "sum_obligation" \in DOMAIN loc.buckets[i]
                       /\ loc.buckets[i].sum_obligation.value < 0
                       /\ loc.buckets[i].sum_obligation.value % 10 # 0
\* a bucket without its loan filter
C9_Witness_AbsentLoanFilter ==
    /\ TotalsDone /\ Len(resp.body) >= 1
    /\ "filter_loans" \notin DOMAIN loc.buckets[1]

----------------------------------------------------------------------------
(* Helpers of the recipient views *)

\* recipient/v2/helpers.validate_year: "all", "latest" or digits pass
YearIsDigit(year) == year \in {"2019", "2020"}
validate_year_raises(year) == ~(YearIsDigit(year) \/ year \in {"all", "latest"})

LookupByHash(h) == SelectSeq(db.lookup, LAMBDA r : r.recipient_hash = CanonUuid(h))
LookupByDuns(duns) == SelectSeq(db.lookup, LAMBDA r : r.duns = duns)

extract_name_duns_from_hash(recipient_hash) ==
    LET name_duns_qs == LookupByHash(recipient_hash)
    IN  IF name_duns_qs = <<>> THEN [duns |-> None, name |-> None]
        ELSE [duns |-> name_duns_qs[1].duns, name |-> name_duns_qs[1].legal_business_name]

extract_hash_name_from_duns(duns) ==
    LET qs_hash == LookupByDuns(duns)
    IN  IF qs_hash = <<>> THEN [hash |-> NoneStr, name |-> None]
        ELSE [hash |-> qs_hash[1].recipient_hash, name |-> qs_hash[1].legal_business_name]

ParentOfDuns(recipient_hash, duns) ==
    LET parent == LookupByDuns(duns)
    IN  IF parent # <<>>
        THEN [parent_duns |-> duns, parent_name |-> parent[1].legal_business_name,
              parent_id |-> FormatLevel(parent[1].recipient_hash, "P"),
              parent_uei |-> ProfileUei(recipient_hash)]
        ELSE [parent_duns |-> duns, parent_name |-> None, parent_id |-> NoneStr,
              parent_uei |-> None]

\* Faulty variant: the parents come out in reverse order
extract_parents_from_hash_reversed(recipient_hash) ==
    LET rows == SelectSeq(db.profile, LAMBDA r : /\ r.recipient_hash = CanonUuid(recipient_hash)
                                                  /\ r.recipient_level = <<"C">>)
        affiliations == rows[1].recipient_affiliations
        n == Len(affiliations)
    IN  [i \in 1..n |-> ParentOfDuns(recipient_hash, affiliations[n + 1 - i])]

\* the caller has validated that the level "C" profile exists
extract_parents_from_hash(recipient_hash) ==
    LET rows == SelectSeq(db.profile, LAMBDA r : /\ r.recipient_hash = CanonUuid(recipient_hash)
                                                  /\ r.recipient_level = <<"C">>)
        affiliations == rows[1].recipient_affiliations
    IN  [i \in 1..Len(affiliations) |-> ParentOfDuns(recipient_hash, affiliations[i])]

----------------------------------------------------------------------------
(* RecipientOverView.get *)

\* lines 330-358: everything before the totals are obtained.  The reads for
\* alternate_names, location and business_types (lines 337-340, 358-359) fill
\* response fields of their own and are left out of the response modelled here.
Begin_RecipientOverView(recipient_id, year) ==
    /\ pc = "idle"
    /\ req' = [NoReq EXCEPT !.op = "RecipientOverView.get",
                            !.recipient_id = recipient_id, !.year = year]
    /\ esLog' = <<>>
    /\ LET v == validate_recipient_id(recipient_id)
           nd == extract_name_duns_from_hash(v.hash)
       IN  IF \/ validate_year_raises(year)
              \/ v.raised
              \/ ~(nd.name # None \/ nd.duns # None)
           THEN /\ pc' = "done"
                /\ resp' = [status |-> "invalid"]
                /\ loc' = NoLoc
           ELSE /\ pc' = "validated"
                /\ resp' = NoResp
                /\ loc' = [step |-> "validated",
                           recipient_hash |-> v.hash,
                           recipient_level |-> v.level,
                           recipient_duns |-> nd.duns,
                           recipient_name |-> nd.name,
                           parents |->
                               IF v.level = <<"C">> THEN extract_parents_from_hash(v.hash)
                               ELSE IF v.level = <<"P">>
                               THEN <<[parent_id |-> recipient_id,
                                       parent_duns |-> nd.duns,
                                       parent_uei |-> ProfileUei(v.hash),
                                       parent_name |-> nd.name]>>
                               ELSE <<>>,
                           totals_id |-> recipient_id,
                           totals_children |-> FALSE,
                           results |-> <<>>]
    /\ UNCHANGED <<db, index>>

\* the call of obtain_recipient_totals (line 360, line 426)
Query_obtain_recipient_totals ==
    /\ pc = "validated"
    /\ \E reply \in AggReplies(index, loc.totals_id, req.year,
                               GroupByField(loc.totals_id, loc.totals_children), {"full"}) :
         LET t == obtain_recipient_totals(loc.totals_id, loc.totals_children, req.year, reply)
         IN  /\ loc' = [loc EXCEPT !.step = "queried", !.results = t.result]
             /\ esLog' = t.queries
    /\ pc' = "queried"
    /\ UNCHANGED <<db, index, req, resp>>

\* lines 361-392
Finish_RecipientOverView ==
    /\ pc = "queried"
    /\ req.op = "RecipientOverView.get"
    /\ LET recipient_totals == IF loc.results # <<>> THEN loc.results[1] ELSE <<>>
           parents == loc.parents
       IN  resp' =
             [status |-> "ok",
              body |->
                [name |-> loc.recipient_name,
                 duns |-> loc.recipient_duns,
                 uei |-> ProfileUei(loc.recipient_hash),
                 recipient_id |-> req.recipient_id,
                 recipient_level |-> loc.recipient_level,
                 parent_id |-> IF parents # <<>> THEN parents[1].parent_id ELSE NoneStr,
                 parent_name |-> IF parents # <<>> THEN parents[1].parent_name ELSE None,
                 parent_duns |-> IF parents # <<>> THEN parents[1].parent_duns ELSE None,
                 parent_uei |-> IF parents # <<>> THEN parents[1].parent_uei ELSE None,
                 parents |-> parents,
                 total_transaction_amount |-> Get(recipient_totals, "total_obligation_amount", 0),
                 total_transactions |-> Get(recipient_totals, "total_obligation_count", 0),
                 total_face_value_loan_amount |->
                     Get(recipient_totals, "total_face_value_loan_amount", 0),
                 total_face_value_loan_transactions |->
                     Get(recipient_totals, "total_face_value_loan_count", 0)]]
    /\ pc' = "done"
    /\ UNCHANGED <<db, index, req, loc, esLog>>

----------------------------------------------------------------------------
(* ChildRecipients.get *)

\* Faulty variant: the "DUNS not found" check is missing
ChildRecipients_rejects_yearOnly(duns, year) == validate_year_raises(year)

\* lines 421-424: the checks made before the totals are obtained
ChildRecipients_rejects(duns, year) ==
    validate_year_raises(year) \/ extract_hash_name_from_duns(duns).hash = NoneStr

\* lines 420-426
Begin_ChildRecipients(duns, year) ==
    /\ pc = "idle"
    /\ req' = [NoReq EXCEPT !.op = "ChildRecipients.get", !.duns = duns, !.year = year]
    /\ esLog' = <<>>
    /\ LET parent == extract_hash_name_from_duns(duns)
       IN  IF ChildRecipients_rejects(duns, year)
           THEN /\ pc' = "done"
                /\ resp' = [status |-> "invalid"]
                /\ loc' = NoLoc
           ELSE /\ pc' = "validated"
                /\ resp' = NoResp
                /\ loc' = [step |-> "validated",
                           parent_hash |-> parent.hash,
                           totals_id |-> FormatLevel(parent.hash, "P"),
                           totals_children |-> TRUE,
                           results |-> <<>>]
    /\ UNCHANGED <<db, index>>

\* lines 430-442
ChildOfTotal(total) ==
    [recipient_id |-> FormatLevel(total.recipient_hash, "C"),
     name |-> total.recipient_name,
     duns |-> total.recipient_unique_id,
     uei |-> ProfileUei(total.recipient_hash),
     amount |-> total.total_obligation_amount]

\* lines 459-468
ChildOfProfile(child_duns) ==
    [recipient_id |-> FormatLevel(child_duns.recipient_hash, "C"),
     name |-> child_duns.recipient_name,
     duns |-> child_duns.recipient_unique_id,
     uei |-> child_duns.uei,
     amount |-> 0]

IsMember(x, s) == \E i \in 1..Len(s) : s[i] = x

\* Faulty variant: the profiles are filtered by level "P"
MissingChildren_parentLevel(children, results) ==
    LET found_duns == [i \in 1..Len(results) |-> results[i].duns]
        missing_duns == SelectSeq(children, LAMBDA d : ~IsMember(d, found_duns))
    IN  SelectSeq(db.profile, LAMBDA r : /\ IsMember(r.recipient_unique_id, missing_duns)
                                          /\ r.recipient_level = <<"P">>)

\* lines 454-458
MissingChildren(children, results) ==
    LET found_duns == [i \in 1..Len(results) |-> results[i].duns]
        missing_duns == SelectSeq(children, LAMBDA d : ~IsMember(d, found_duns))
    IN  SelectSeq(db.profile, LAMBDA r : /\ IsMember(r.recipient_unique_id, missing_duns)
                                          /\ r.recipient_level = <<"C">>)

\* lines 471-479
\* the state map is keyed by str(row hash); the result's hash text is looked up in it
WithState(result) ==
    LET rows == SelectSeq(db.lookup, LAMBDA r : r.recipient_hash = DropLast2(result.recipient_id))
    IN  IF rows = <<>> THEN result
        ELSE result @@ [state_province |-> rows[Len(rows)].state]

\* Faulty variant: any profile of the hash counts as a parent
ParentProfiles_anyLevel(parent_hash) ==
    SelectSeq(db.profile, LAMBDA r : r.recipient_hash = parent_hash)

\* lines 446-448
ParentProfiles(parent_hash) ==
    SelectSeq(db.profile, LAMBDA r : /\ r.recipient_hash = parent_hash
                                      /\ r.recipient_level = <<"P">>)

\* lines 429-481: the response, or the error of line 450
ChildRecipients_response ==
    LET results == [i \in 1..Len(loc.results) |-> ChildOfTotal(loc.results[i])]
        children_duns == ParentProfiles(loc.parent_hash)
    IN  IF req.year # "all"
        THEN IF children_duns = <<>>
             THEN [status |-> "invalid"]
             ELSE LET missing == MissingChildren(children_duns[1].recipient_affiliations, results)
                      all == results \o [i \in 1..Len(missing) |-> ChildOfProfile(missing[i])]
                  IN  [status |-> "ok", body |-> [i \in 1..Len(all) |-> WithState(all[i])]]
        ELSE [status |-> "ok", body |-> [i \in 1..Len(results) |-> WithState(results[i])]]

\* Faulty variant: the state map is written back to the lookup rows
Finish_ChildRecipients_saves ==
    /\ pc = "queried"
    /\ req.op = "ChildRecipients.get"
    /\ resp' = ChildRecipients_response
    /\ pc' = "done"
    /\ db' = [db EXCEPT !.lookup = [i \in 1..Len(@) |-> [@[i] EXCEPT !.state = None]]]
    /\ UNCHANGED <<index, req, loc, esLog>>

Finish_ChildRecipients ==
    /\ pc = "queried"
    /\ req.op = "ChildRecipients.get"
    /\ resp' = ChildRecipients_response
    /\ pc' = "done"
    /\ UNCHANGED <<db, index, req, loc, esLog>>

----------------------------------------------------------------------------
(* Data the recipient specifications start from *)

UniqueLookup(t) == \A i, j \in 1..Len(t) : i # j => t[i].recipient_hash # t[j].recipient_hash
UniqueProfile(t) ==
    \A i, j \in 1..Len(t) :
        i # j => ~(t[i].recipient_hash = t[j].recipient_hash
                   /\ t[i].recipient_level = t[j].recipient_level)

LookupTables(cands) == {t \in SubsequencesOf(cands, MaxLookups) : UniqueLookup(t)}
ProfileTables(cands) == {t \in SubsequencesOf(cands, MaxProfiles) : UniqueProfile(t)}

RequestYears == {"latest", "all", "2019", "next"}

InitWith(lookups, profiles, indexes) ==
    /\ db \in {[EmptyDb EXCEPT !.lookup = l, !.profile = p] : l \in lookups, p \in profiles}
    /\ index \in indexes
    /\ pc = "idle"
    /\ req = NoReq
    /\ loc = NoLoc
    /\ resp = NoResp
    /\ esLog = <<>>

----------------------------------------------------------------------------
(* Specification of RecipientOverView.get *)

OverviewLookups ==
    << LookupRow(HA, "d1", "n1", "VA"),
       LookupRow(HB, "d2", "n2", "MD"),
       LookupRow(HB, None, None, None),
       LookupRow(HA, None, "n1", "VA") >>

OverviewProfiles ==
    << ProfileRow(HA, <<"P">>, "d1", "n1", <<"d2">>, "u1"),
       ProfileRow(HB, <<"C">>, "d2", "n2", <<"d1", "d3">>, "u2"),
       ProfileRow(HB, <<"C">>, "d2", "n2", <<>>, None),
       ProfileRow(HB, <<"R">>, "d2", "n2", <<>>, "u2"),
       ProfileRow(HA, <<"C">>, "d1", "n1", <<"d2", "d1">>, "u1") >>

OverviewDocs ==
    << Doc(HB, HA, AggKey("n2", "d2", FormatLevel(HB, "C")), 25, "A", 0, "2020", TRUE),
       Doc(HB, HA, AggKey("n2", "d2", FormatLevel(HB, "C")), -19, "07", 38, "2019", TRUE),
       Doc(HB, NoneStr, NoKey, 100, "07", 5, "2019", TRUE) >>

OverviewIds ==
    { FormatLevel(HA, "P"), FormatLevel(HA, "C"), FormatLevel(HB, "C"), FormatLevel(HB, "R"),
      FormatLevel(Rep("A"), "P"), HA }

InitOverview ==
    InitWith(LookupTables(OverviewLookups), ProfileTables(OverviewProfiles),
             SubsequencesOf(OverviewDocs, MaxDocs))

NextOverview ==
    \/ \E recipient_id \in OverviewIds, year \in RequestYears :
          Begin_RecipientOverView(recipient_id, year)
    \/ Query_obtain_recipient_totals
    \/ Finish_RecipientOverView
    \/ Return

SpecOverview == InitOverview /\ [][NextOverview]_vars

OverviewAnswered == pc = "done" /\ req.op = "RecipientOverView.get" /\ resp.status = "ok"

C10_Hash == CanonUuid(DropLast2(req.recipient_id))
C10_Level == req.recipient_id[Len(req.recipient_id)]
C10_OwnLookup == CHOOSE i \in 1..Len(db.lookup) : db.lookup[i].recipient_hash = C10_Hash
C10_Affiliations ==
    LET i == CHOOSE k \in 1..Len(db.profile) :
                 /\ db.profile[k].recipient_hash = C10_Hash
                 /\ db.profile[k].recipient_level = <<"C">>
    IN  db.profile[i].recipient_affiliations
C10_ParentsByLevel ==
    LET parents == resp.body.parents
    IN  CASE C10_Level = "P" ->
               /\ Len(parents) = 1
               /\ parents[1].parent_id = req.recipient_id
               /\ parents[1].parent_duns = db.lookup[C10_OwnLookup].duns
               /\ parents[1].parent_name = db.lookup[C10_OwnLookup].legal_business_name
          [] C10_Level = "C" ->
               /\ Len(parents) = Len(C10_Affiliations)
               /\ \A i \in 1..Len(parents) : parents[i].parent_duns = C10_Affiliations[i]
          [] OTHER -> parents = <<>>
C10_TopLevelParent ==
    LET b == resp.body
    IN  IF b.parents # <<>>
        THEN /\ b.parent_id = b.parents[1].parent_id
             /\ b.parent_name = b.parents[1].parent_name
             /\ b.parent_duns = b.parents[1].parent_duns
             /\ b.parent_uei = b.parents[1].parent_uei
        ELSE /\ b.parent_id = NoneStr /\ b.parent_name = None
             /\ b.parent_duns = None /\ b.parent_uei = None
C10_Totals ==
    LET b == resp.body
    IN  IF loc.results # <<>>
        THEN /\ b.total_transaction_amount = loc.results[1].total_obligation_amount
             /\ b.total_transactions = loc.results[1].total_obligation_count
             /\ b.total_face_value_loan_amount = loc.results[1].total_face_value_loan_amount
             /\ b.total_face_value_loan_transactions = loc.results[1].total_face_value_loan_count
        ELSE /\ b.total_transaction_amount = 0 /\ b.total_transactions = 0
             /\ b.total_face_value_loan_amount = 0 /\ b.total_face_value_loan_transactions = 0

\* C10: in the overview response, parents is the recipient itself for level "P",
\* one entry per DUNS of the recipient's affiliations (in order) for level "C",
\* empty otherwise; the top-level parent fields are those of parents[0] or null;
\* the four totals are those of the first totals result, or 0 without one.
C10_OverviewParentsAndTotals ==
    OverviewAnswered => (C10_ParentsByLevel /\ C10_TopLevelParent /\ C10_Totals)

\* a child with two affiliations, the first of them a known recipient, and totals
C10_Witness_ChildTwoParents ==
    /\ OverviewAnswered /\ C10_Level = "C" /\ Len(resp.body.parents) = 2
    /\ resp.body.parent_id # NoneStr /\ resp.body.total_transactions > 0
C10_Witness_ParentLevel ==
    OverviewAnswered /\ C10_Level = "P" /\ resp.body.total_transactions > 0
C10_Witness_NoParents ==
    OverviewAnswered /\ C10_Level = "R" /\ loc.results = <<>>

----------------------------------------------------------------------------
(* Specification of ChildRecipients.get *)

ChildrenLookups ==
    << LookupRow(HB, "d1", "n2", "MD"),
       LookupRow(HA, "d1", "n1", "VA"),
       LookupRow(HB, "d2", "n2", "MD") >>

ChildrenProfiles ==
    << ProfileRow(HA, <<"P">>, "d1", "n1", <<"d2", "d3">>, "u1"),
       ProfileRow(HA, <<"P">>, "d1", "n1", <<>>, "u1"),
       ProfileRow(HB, <<"C">>, "d2", "n2", <<"d1">>, "u2"),
       ProfileRow(HA, <<"C">>, "d3", "n3", <<"d1">>, None),
       ProfileRow(HB, <<"P">>, "d2", "n2", <<"d3">>, "u2") >>

\* every child document carries its hash_with_level in the aggregation key
ChildrenDocs ==
    << Doc(HB, HA, AggKey("n2", "d2", FormatLevel(HB, "C")), 25, "A", 0, "2020", TRUE),
       Doc(HB, HA, AggKey("n2", "d2", FormatLevel(HB, "C")), -19, "07", 38, "2019", FALSE),
       Doc(HA, HA, AggKey("n3", "d3", FormatLevel(HA, "C")), 7, "A", 0, "2019", TRUE),
       Doc(HA, HB, AggKey("n4", "d4", FormatLevel(HA, "C")), 31, "A", 0, "2019", TRUE) >>

RequestDuns == {"d1", "d2", "d9"}

InitChildren ==
    InitWith(LookupTables(ChildrenLookups), ProfileTables(ChildrenProfiles),
             SubsequencesOf(ChildrenDocs, MaxDocs))

NextChildren ==
    \/ \E duns \in RequestDuns, year \in RequestYears : Begin_ChildRecipients(duns, year)
    \/ Query_obtain_recipient_totals
    \/ Finish_ChildRecipients
    \/ Return

SpecChildren == InitChildren /\ [][NextChildren]_vars

ChildrenDone == pc = "done" /\ req.op = "ChildRecipients.get"

\* the rows the claims speak of, read off the tables directly
DunsKnown == \E i \in 1..Len(db.lookup) : db.lookup[i].duns = req.duns
ParentHashOfDuns ==
    LET i == CHOOSE k \in 1..Len(db.lookup) :
                 /\ db.lookup[k].duns = req.duns
                 /\ \A j \in 1..(k-1) : db.lookup[j].duns # req.duns
    IN  db.lookup[i].recipient_hash
ListedAsParent ==
    \E i \in 1..Len(db.profile) :
        /\ db.profile[i].recipient_hash = ParentHashOfDuns
        /\ db.profile[i].recipient_level = <<"P">>

\* C3: ChildRecipients.get raises the invalid-parameter error when no
\* RecipientLookup row has the DUNS and, for a year other than "all", when the
\* parent hash has no level "P" RecipientProfile row; no list is returned then.
C3_ChildrenRaisesForUnknownOrUnlistedDuns ==
    ChildrenDone =>
        /\ ~DunsKnown => resp.status = "invalid"
        /\ (DunsKnown /\ req.year # "all" /\ ~ListedAsParent) => resp.status = "invalid"
        /\ resp.status = "invalid" => "body" \notin DOMAIN resp

C3_Witness_UnknownDuns ==
    ChildrenDone /\ ~DunsKnown /\ Len(db.lookup) > 0 /\ resp.status = "invalid"
\* the DUNS is known, the totals were obtained, and the parent check failed
C3_Witness_NotListedAsParent ==
    /\ ChildrenDone /\ DunsKnown /\ req.year \in {"latest", "2019"} /\ ~ListedAsParent
    /\ Len(loc.results) > 0 /\ resp.status = "invalid"

C6_ParentAffiliations ==
    LET i == CHOOSE k \in 1..Len(db.profile) :
                 /\ db.profile[k].recipient_hash = ParentHashOfDuns
                 /\ db.profile[k].recipient_level = <<"P">>
                 /\ \A j \in 1..(k-1) : ~(/\ db.profile[j].recipient_hash = ParentHashOfDuns
                                          /\ db.profile[j].recipient_level = <<"P">>)
    IN  db.profile[i].recipient_affiliations
C6_HasChildProfile(d) ==
    \E i \in 1..Len(db.profile) :
        db.profile[i].recipient_unique_id = d /\ db.profile[i].recipient_level = <<"C">>
C6_TotalsFor(d) == {i \in 1..Len(loc.results) : loc.results[i].recipient_unique_id = d}
C6_EntriesFor(d) == {i \in 1..Len(resp.body) : resp.body[i].duns = d}

\* C6: for a year other than "all" every DUNS of the parent's affiliations
\* that has a level "C" profile has an entry: with amount 0 when the totals
\* hold nothing for it, with its total obligation amount otherwise.  For "all"
\* exactly the totals' children are listed.
C6_EveryChildListed ==
    (ChildrenDone /\ resp.status = "ok") =>
        IF req.year # "all"
        THEN \A k \in 1..Len(C6_ParentAffiliations) :
               LET d == C6_ParentAffiliations[k]
               IN  C6_HasChildProfile(d) =>
                     /\ C6_EntriesFor(d) # {}
                     /\ IF C6_TotalsFor(d) = {}
                        THEN \A i \in C6_EntriesFor(d) : resp.body[i].amount = 0
                        ELSE /\ C6_EntriesFor(d) = C6_TotalsFor(d)
                             /\ \A i \in C6_TotalsFor(d) :
                                   resp.body[i].amount = loc.results[i].total_obligation_amount
        ELSE /\ Len(resp.body) = Len(loc.results)
             /\ \A i \in 1..Len(resp.body) :
                   /\ resp.body[i].duns = loc.results[i].recipient_unique_id
                   /\ resp.body[i].amount = loc.results[i].total_obligation_amount

\* a parent with one child that has totals and one child that has none
C6_Witness_ChildWithAndWithoutTotals ==
    /\ ChildrenDone /\ resp.status = "ok" /\ req.year # "all"
    /\ \E i, j \in 1..Len(resp.body) :
          /\ i <= Len(loc.results) /\ resp.body[i].amount # 0
          /\ j > Len(loc.results) /\ resp.body[j].amount = 0
          /\ IsMember(resp.body[i].duns, C6_ParentAffiliations)
          /\ IsMember(resp.body[j].duns, C6_ParentAffiliations)
C6_Witness_AllYears ==
    /\ ChildrenDone /\ resp.status = "ok" /\ req.year = "all" /\ Len(resp.body) = 2
    /\ ~ListedAsParent

----------------------------------------------------------------------------
(* FederalAccountCountViewSet.post *)

\* a nullable number: <<>> is NULL, <<n>> is n
Null == <<>>
Gt0(x) == x # Null /\ x[1] > 0
Lt0(x) == x # Null /\ x[1] < 0

\* treasury account -> its federal account (0: none)
TreasuryFederalAccount(tas) ==
    CASE tas = 10 -> 1 [] tas = 11 -> 2 [] tas = 12 -> 1 [] OTHER -> 0

Submission(start, quarterly, fy, quarter, period) ==
    [reporting_period_start |-> start, quarter_format_flag |-> quarterly,
     reporting_fiscal_year |-> fy, reporting_fiscal_quarter |-> quarter,
     reporting_fiscal_period |-> period]

FabaRow(tas, defc, submission, obligations, outlay) ==
    [treasury_account |-> tas, disaster_emergency_fund |-> defc, submission |-> submission,
     obligations_incurred_by_program_object_class_cpe |-> obligations,
     gross_outlay_amount_by_program_object_class_cpe |-> outlay]

\* Faulty variant: negative amounts are not looked at
FabaFilters_positiveOnly(row, pk, def_codes) ==
    /\ TreasuryFederalAccount(row.treasury_account) = pk
    /\ row.disaster_emergency_fund \in def_codes
    /\ row.submission.reporting_period_start >= db.reporting_period_min
    /\ \/ /\ row.submission.quarter_format_flag = TRUE
          /\ row.submission.reporting_fiscal_year <= db.window.quarterly.submission_fiscal_year
          /\ row.submission.reporting_fiscal_quarter
                <= db.window.quarterly.submission_fiscal_quarter
       \/ /\ row.submission.quarter_format_flag = FALSE
          /\ row.submission.reporting_fiscal_year <= db.window.monthly.submission_fiscal_year
          /\ row.submission.reporting_fiscal_period <= db.window.monthly.submission_fiscal_month
    /\ \/ Gt0(row.obligations_incurred_by_program_object_class_cpe)
       \/ Gt0(row.gross_outlay_amount_by_program_object_class_cpe)

\* the filters of lines 20-50, for the outer FederalAccount row `pk`
FabaFilters(row, pk, def_codes) ==
    /\ TreasuryFederalAccount(row.treasury_account) = pk
    /\ row.disaster_emergency_fund \in def_codes
    /\ row.submission.reporting_period_start >= db.reporting_period_min
    /\ \/ /\ row.submission.quarter_format_flag = TRUE
          /\ row.submission.reporting_fiscal_year <= db.window.quarterly.submission_fiscal_year
          /\ row.submission.reporting_fiscal_quarter
                <= db.window.quarterly.submission_fiscal_quarter
       \/ /\ row.submission.quarter_format_flag = FALSE
          /\ row.submission.reporting_fiscal_year <= db.window.monthly.submission_fiscal_year
          /\ row.submission.reporting_fiscal_period <= db.window.monthly.submission_fiscal_month
    /\ \/ Gt0(row.obligations_incurred_by_program_object_class_cpe)
       \/ Lt0(row.obligations_incurred_by_program_object_class_cpe)
       \/ Gt0(row.gross_outlay_amount_by_program_object_class_cpe)
       \/ Lt0(row.gross_outlay_amount_by_program_object_class_cpe)

\* lines 51-58: annotate(include=Exists(...)).filter(include=True).values("pk").count()
FederalAccountCount(def_codes) ==
    LET include(pk) == SelectSeq(db.faba, LAMBDA row : FabaFilters(row, pk, def_codes)) # <<>>
    IN  Cardinality({pk \in db.accounts : include(pk)})

FederalAccountCountViewSet_post(def_codes) ==
    /\ pc = "idle"
    /\ req' = [NoReq EXCEPT !.op = "FederalAccountCountViewSet.post", !.def_codes = def_codes]
    /\ resp' = [status |-> "ok", body |-> [count |-> FederalAccountCount(def_codes)]]
    /\ pc' = "done"
    /\ esLog' = <<>>
    /\ UNCHANGED <<db, index, loc>>

----------------------------------------------------------------------------
(* Specification of FederalAccountCountViewSet.post *)

\* last closed quarterly submission: fiscal 2020 quarter 2; monthly: 2020 month 7;
\* earliest reporting period start counted: day 3
CountWindow ==
    [quarterly |-> [submission_fiscal_year |-> 2020, submission_fiscal_quarter |-> 2],
     monthly |-> [submission_fiscal_year |-> 2020, submission_fiscal_month |-> 7]]

FabaRows ==
    << FabaRow(10, "L", Submission(3, TRUE, 2020, 2, 6), <<5>>, <<0>>),
       FabaRow(12, "M", Submission(4, FALSE, 2020, 3, 7), <<0>>, <<-3>>),
       FabaRow(11, "L", Submission(4, FALSE, 2019, 4, 7), Null, <<8>>),
       FabaRow(11, "L", Submission(2, TRUE, 2020, 2, 6), <<5>>, <<1>>),
       FabaRow(11, "L", Submission(3, TRUE, 2020, 3, 7), <<5>>, <<1>>),
       FabaRow(11, "M", Submission(3, TRUE, 2021, 1, 3), <<5>>, <<1>>),
       FabaRow(11, "L", Submission(3, FALSE, 2020, 2, 8), <<-5>>, <<1>>),
       FabaRow(11, "L", Submission(3, FALSE, 2021, 1, 1), <<-5>>, <<1>>),
       FabaRow(11, "M", Submission(3, TRUE, 2020, 1, 3), <<0>>, Null),
       FabaRow(13, "L", Submission(3, TRUE, 2020, 1, 3), <<-2>>, Null),
       FabaRow(11, "A", Submission(3, TRUE, 2019, 2, 6), <<4>>, <<4>>),
       FabaRow(11, "L", Submission(5, TRUE, 2019, 1, 9), <<-1>>, <<0>>) >>

DefCodeRequests == {{"L"}, {"L", "M"}, {"A", "M"}, {}}

InitCountWith(accountSets, rows) ==
    /\ db \in {[EmptyDb EXCEPT !.accounts = a, !.faba = f, !.window = CountWindow,
                               !.reporting_period_min = 3] :
                  a \in accountSets, f \in SubsequencesOf(rows, MaxFaba)}
    /\ index = <<>>
    /\ pc = "idle"
    /\ req = NoReq
    /\ loc = NoLoc
    /\ resp = NoResp
    /\ esLog = <<>>

InitCount == InitCountWith({{1, 2}, {2, 3}}, FabaRows)

NextCount ==
    \/ \E def_codes \in DefCodeRequests : FederalAccountCountViewSet_post(def_codes)
    \/ Return

SpecCount == InitCount /\ [][NextCount]_vars

CountDone == pc = "done" /\ req.op = "FederalAccountCountViewSet.post"

C1_NonZero(x) == x # <<>> /\ x[1] # 0
C1_InWindow(sub) ==
    IF sub.quarter_format_flag
    THEN /\ sub.reporting_fiscal_year <= db.window.quarterly.submission_fiscal_year
         /\ sub.reporting_fiscal_quarter <= db.window.quarterly.submission_fiscal_quarter
    ELSE /\ sub.reporting_fiscal_year <= db.window.monthly.submission_fiscal_year
         /\ sub.reporting_fiscal_period <= db.window.monthly.submission_fiscal_month
C1_RowCounts(row, account) ==
    /\ TreasuryFederalAccount(row.treasury_account) = account
    /\ row.disaster_emergency_fund \in req.def_codes
    /\ ~(row.submission.reporting_period_start < db.reporting_period_min)
    /\ C1_InWindow(row.submission)
    /\ \/ C1_NonZero(row.obligations_incurred_by_program_object_class_cpe)
       \/ C1_NonZero(row.gross_outlay_amount_by_program_object_class_cpe)
C1_Matching(account) == {i \in 1..Len(db.faba) : C1_RowCounts(db.faba[i], account)}

\* C1: the count is the number of distinct federal accounts having at least one
\* row that belongs to the account through its treasury account, has a
\* requested DEF code, a reporting period start not before the minimum, lies in
\* the closed-submission window of its kind, and has a non-zero obligation or
\* non-zero outlay; several rows count once, no row counts nothing.
C1_CountIsDistinctAccountsWithMatchingRow ==
    CountDone =>
        /\ resp.status = "ok"
        /\ \E counted \in SUBSET db.accounts :
              /\ resp.body.count = Cardinality(counted)
              /\ \A a \in db.accounts : (a \in counted) <=> (C1_Matching(a) # {})

\* one account with two matching rows and one account with rows that all fail
C1_Witness_TwoRowsCountedOnce ==
    /\ CountDone /\ resp.body.count = 1
    /\ Cardinality(C1_Matching(1)) = 2
    /\ 2 \in db.accounts
C1_Witness_NegativeOutlayOnly ==
    /\ CountDone /\ resp.body.count = 1 /\ Len(db.faba) = 1
    /\ db.faba[1].gross_outlay_amount_by_program_object_class_cpe = <<-3>>

----------------------------------------------------------------------------
(* Download count endpoint, POST /api/v2/download/count/ *)

\* the awarding agencies of the fixture: agency id -> toptier agency name
ToptierNameOfAgency(agency) ==
    CASE agency = 1 -> "Bureau of Things"
      [] agency = 2 -> "Bureau of Stuff"
      [] OTHER -> "Bureau of Money"

\* Faulty variant: trann2 is awarded by aa1 as well
download_test_data_sameAgency ==
    << [award |-> 123, awarding_agency |-> 1],
       [award |-> 456, awarding_agency |-> 1],
       [award |-> 789, awarding_agency |-> 2] >>

\* the transactions download_test_data creates (trann1, trann2, trann3)
download_test_data ==
    << [award |-> 123, awarding_agency |-> 1],
       [award |-> 456, awarding_agency |-> 2],
       [award |-> 789, awarding_agency |-> 2] >>

\* filters.agencies = [{type: awarding, tier: toptier, name: ...}]
MatchesAgencyFilter(transaction, name) ==
    ToptierNameOfAgency(transaction.awarding_agency) = name

DownloadCount(name) ==
    LET n == Len(SelectSeq(db.transactions, LAMBDA t : MatchesAgencyFilter(t, name)))
    IN  [calculated_transaction_count |-> n,
         maximum_transaction_limit |-> MAX_DOWNLOAD_LIMIT,
         transaction_rows_gt_limit |-> n > MAX_DOWNLOAD_LIMIT]

DownloadCount_post(name) ==
    /\ pc = "idle"
    /\ req' = [NoReq EXCEPT !.op = "download.count", !.agency = name]
    /\ resp' = [status |-> "ok", body |-> DownloadCount(name)]
    /\ pc' = "done"
    /\ esLog' = <<>>
    /\ UNCHANGED <<db, index, loc>>

TransactionTables ==
    {download_test_data} \cup
    UNION {[1..n -> {[award |-> 1, awarding_agency |-> a] : a \in {1, 2}}] :
              n \in 0..MaxTransactions}

InitDownload ==
    /\ db \in {[EmptyDb EXCEPT !.transactions = t] : t \in TransactionTables}
    /\ index = <<>>
    /\ pc = "idle"
    /\ req = NoReq
    /\ loc = NoLoc
    /\ resp = NoResp
    /\ esLog = <<>>

NextDownload ==
    \/ \E name \in {"Bureau of Things", "Bureau of Stuff", "Bureau of Money"} :
          DownloadCount_post(name)
    \/ Return

SpecDownload == InitDownload /\ [][NextDownload]_vars

DownloadDone == pc = "done" /\ req.op = "download.count"

C4_Counted ==
    {i \in 1..Len(db.transactions) :
        ToptierNameOfAgency(db.transactions[i].awarding_agency) = req.agency}

C4_Witness_AboveLimit ==
    /\ DownloadDone /\ resp.body.transaction_rows_gt_limit
    /\ Cardinality(C4_Counted) < Len(db.transactions)

----------------------------------------------------------------------------
(* Specification of the three views serving requests one after another *)

ServiceLookups ==
    << LookupRow(HA, "d1", "n1", "VA"), LookupRow(HB, "d2", "n2", "MD") >>
ServiceProfiles ==
    << ProfileRow(HA, <<"P">>, "d1", "n1", <<"d2">>, "u1"),
       ProfileRow(HB, <<"C">>, "d2", "n2", <<"d1">>, "u2"),
       ProfileRow(HB, <<"R">>, "d2", "n2", <<>>, "u2") >>
ServiceDocs ==
    << Doc(HB, HA, AggKey("n2", "d2", FormatLevel(HB, "C")), 25, "A", 0, "2020", TRUE),
       Doc(HB, NoneStr, NoKey, 100, "07", 5, "2019", TRUE) >>
ServiceFaba ==
    << FabaRow(10, "L", Submission(3, TRUE, 2020, 2, 6), <<5>>, <<0>>),
       FabaRow(11, "L", Submission(3, FALSE, 2020, 2, 8), <<-5>>, <<1>>) >>
ServiceIds == {FormatLevel(HA, "P"), FormatLevel(HB, "C"), FormatLevel(HB, "R"), HB}
ServiceYears == {"latest", "all", "next"}

Init ==
    /\ db \in {[EmptyDb EXCEPT !.lookup = l, !.profile = p, !.accounts = {1, 2}, !.faba = f,
                               !.window = CountWindow, !.reporting_period_min = 3] :
                  l \in LookupTables(ServiceLookups),
                  p \in ProfileTables(ServiceProfiles),
                  f \in SubsequencesOf(ServiceFaba, MaxFaba)}
    /\ index \in SubsequencesOf(ServiceDocs, MaxDocs)
    /\ pc = "idle"
    /\ req = NoReq
    /\ loc = NoLoc
    /\ resp = NoResp
    /\ esLog = <<>>

Next ==
    \/ \E recipient_id \in ServiceIds, year \in ServiceYears :
          Begin_RecipientOverView(recipient_id, year)
    \/ \E duns \in {"d1", "d2", "d9"}, year \in ServiceYears : Begin_ChildRecipients(duns, year)
    \/ \E def_codes \in {{"L"}, {"M"}} : FederalAccountCountViewSet_post(def_codes)
    \/ Query_obtain_recipient_totals
    \/ Finish_RecipientOverView
    \/ Finish_ChildRecipients
    \/ Return

Spec == Init /\ [][Next]_vars

C7_NoInvalidAfterIndexQuery ==
    (pc = "done" /\ esLog # <<>>) => resp.status # "invalid"

\* C7 as amended: the order holds in RecipientOverView.get, and in
\* ChildRecipients.get for year "all"; the only invalid-parameter error after
\* an index query is ChildRecipients.get's "not listed as a parent" check for
\* a year other than "all".
C7_InvalidAfterQueryOnlyUnlistedParent ==
    (pc = "done" /\ esLog # <<>> /\ resp.status = "invalid") =>
        /\ req.op = "ChildRecipients.get"
        /\ req.year # "all"
        /\ DunsKnown /\ ~ListedAsParent

\* an overview answered after its index queries
C7_Witness_OverviewAnswered ==
    pc = "done" /\ req.op = "RecipientOverView.get" /\ esLog # <<>> /\ resp.status = "ok"
C7_Witness_ChildrenInvalidAfterQuery ==
    pc = "done" /\ req.op = "ChildRecipients.get" /\ esLog # <<>> /\ resp.status = "invalid"

====
